---- MODULE Spec2Model ----
(***************************************************************************)
(* Verb Conjugator Factory: the generation pipeline                        *)
(*   ui/gradio_app.py        VerbConjugatorFactoryUI.generate_application  *)
(*   agents/code_gen_agent.py CodeGenAgent.generate_code                   *)
(*   agents/test_agent.py     TestAgent.generate_tests                     *)
(* Texts are sequences of chunks (a chunk is a run of characters), so that *)
(* substring tests, prefixing and fence stripping are computed.            *)
(* The agents are built without an mcp_client (gradio_app.py:24-27), so    *)
(* the notify branches of the agents are never taken.                      *)
(***************************************************************************)
EXTENDS Integers, Sequences, FiniteSets, TLC

\* ---------------------------------------------------------------- bounds
MaxCalls == 10
MaxDirectCalls == 4
MaxTokens == 2

\* the invocations that may be in flight together
Threads == {1, 2}
TokenCounts == 1..MaxTokens

\* ------------------------------------------------------- optional values
None == <<>>
Some(x) == <<x>>
IsSome(o) == Len(o) = 1
Get(o) == o[1]

\* ------------------------------------------------------------------ text
NL == "\n"
EmptyText == <<>>

\* s occurs in text as a contiguous run of chunks (Python: s in text)
Contains(text, s) ==
  \E i \in 0..(Len(text) - Len(s)) :
     \A j \in 1..Len(s) : text[i + j] = s[j]

DropLast(text, n) == SubSeq(text, 1, Len(text) - n)

Whitespace == {NL, " "}

RECURSIVE LStrip(_)
LStrip(text) ==
  IF Len(text) > 0 /\ text[1] \in Whitespace THEN LStrip(Tail(text)) ELSE text

RECURSIVE RStrip(_)
RStrip(text) ==
  IF Len(text) > 0 /\ text[Len(text)] \in Whitespace
  THEN RStrip(DropLast(text, 1)) ELSE text

Strip(text) == LStrip(RStrip(text))

\* the three-backquote fence markers of a Markdown code block
FencePy == "<fence>python"
Fence == "<fence>"

\* utils.helpers.clean_code_block: strips the code-fence wrapping of a
\* model response and the surrounding whitespace
StripOpenFence(text) ==
  IF Len(text) > 0 /\ text[1] \in {FencePy, Fence} THEN Tail(text) ELSE text

StripCloseFence(text) ==
  IF Len(text) > 0 /\ text[Len(text)] = Fence THEN DropLast(text, 1) ELSE text

clean_code_block(text) == Strip(StripCloseFence(StripOpenFence(Strip(text))))

\* test_agent.py:67-68
ImportPytest == <<"import ", "pytest">>

EnsureImportDropped(text) == text

EnsureImport(text) ==
  IF ~Contains(text, ImportPytest) THEN ImportPytest \o <<NL>> \o text ELSE text

\* ------------------------------------------------------- model responses
RespFencedImport ==
  <<FencePy, NL, "import ", "pytest", NL, "def test_a", NL, Fence>>
RespPlain == <<"body_b">>
RespImportInside == <<"body_c", NL, "import ", "pytest", "_mock">>
RespFenced == <<Fence, NL, "body_d", NL, Fence>>
RespEmpty == EmptyText

CodeResponses == {RespPlain, RespFenced}
TestResponses ==
  {RespFencedImport, RespPlain, RespImportInside, RespFenced, RespEmpty}

Requirements == {<<"req_a">>, EmptyText}

\* mcp.RequirementSpec
SpecA ==
  [languages |-> <<"English">>, tenses |-> <<"present">>,
   persons |-> <<"I">>, handle_irregular |-> FALSE]
SpecB ==
  [languages |-> <<"English", "Spanish">>, tenses |-> <<"present", "past">>,
   persons |-> <<"I", "you">>, handle_irregular |-> TRUE]
Specs == {SpecA, SpecB}

Designs == {<<"design_a">>, <<"design_b">>}

ErrMsgs == {EmptyText, <<"quota exceeded">>}

\* what the environment may answer in a specification: the parsed
\* specifications, the designs, the model's texts for the conjugator module,
\* the UI module and the tests, the usage
\* observations and the error messages
World(specs, designs, code, ui, tests, tokens, errs) ==
  [specs |-> specs, designs |-> designs, code |-> code, ui |-> ui,
   tests |-> tests, tokens |-> tokens, errs |-> errs]

WorldSeq ==
  World(Specs, Designs, CodeResponses, CodeResponses,
        {RespFencedImport, RespPlain}, {MaxTokens}, ErrMsgs)

\* ------------------------------------------------------------ filesystem
CONJUGATOR_DIR == "generated/conjugator"
TESTS_DIR == "generated/tests"
FnConjugator == <<"verb_", "conjugator", ".py">>
FnUi == <<"gradio_ui", ".py">>
FnTests == <<"test_", "conjugator", ".py">>
FnOther == <<"main", ".py">>

PathConjugator == <<CONJUGATOR_DIR, FnConjugator>>
PathUi == <<CONJUGATOR_DIR, FnUi>>
PathTests == <<TESTS_DIR, FnTests>>
USAGE_REPORT_FILE == <<"", <<"usage_report", ".json">>>>

Filenames == {FnConjugator, FnUi, FnOther}
Paths ==
  {<<CONJUGATOR_DIR, f>> : f \in Filenames} \cup {PathTests, USAGE_REPORT_FILE}

\* utils.helpers.save_to_file: whole-file overwrite
save_to_file(d, content, path) == [d EXCEPT ![path] = Some(content)]

\* ---------------------------------------------------------- usage tracker
ZeroUsage == [calls |-> 0, tokens |-> 0]

\* TrackingAgent.generate_content, on a successful model call: one usage
\* observation is added to the accumulated counters
RecordUsage(u, tok) == [calls |-> u.calls + 1, tokens |-> u.tokens + tok]

\* TrackingAgent.save_usage_report: the accumulated counters, serialised
ReportText(u) == <<"usage_report", u.calls, u.tokens>>


\* ----------------------------------------------------------------- state
VARIABLES
  pc,        \* per invocation: the statement it stands at
  caller,    \* "ui": called by generate_application; "direct": agent called alone
  orch,      \* locals of generate_application
  cg,        \* frame of CodeGenAgent.generate_code
  tg,        \* frame of TestAgent.generate_tests (cleaned: test_code as
             \* it is between lines 64 and 67)
  exc,       \* the exception in flight or last handled (its message)
  disk,      \* the output files
  usage,     \* TrackingAgent's accumulated counters
  obs,       \* sum of the usage observations of the model client's answers
  trace,     \* per invocation: model calls, file writes and reads attempted
  prompt,    \* per invocation: the last prompt sent to the model
  disk0,     \* per invocation: the files as they were when it started
  cj         \* frame of VerbConjugator.conjugate and the library it calls

pipelineVars ==
  <<pc, caller, orch, cg, tg, exc, disk, usage, obs, trace, prompt, disk0>>

vars == <<pipelineVars, cj>>

OrchInit ==
  [requirements |-> None, status |-> EmptyText, spec |-> None, design |-> None,
   generated_code |-> None, test_code |-> None, conjugator_code |-> None,
   ui_code |-> None, full_code |-> None, usage_report |-> None,
   result |-> None]

CgInit ==
  [spec |-> None, design |-> None, generated_files |-> <<>>, i |-> 0,
   ret |-> None]

TgInit ==
  [spec |-> None, generated_code |-> None, conjugator_code |-> None,
   response |-> None, cleaned |-> None, test_code |-> None, ret |-> None]

\* verb_conjugator.py:23: no call of conjugate has been made
CjInit ==
  [pc |-> "idle", initialised |-> TRUE, verb |-> "", tenses |-> None,
   persons |-> None, lib |-> None,
   selected_tenses |-> <<>>, selected_persons |-> <<>>, ti |-> 1, pi |-> 1,
   tense_conjugations |-> <<>>, conjugations |-> <<>>, ret |-> None,
   raised |-> None]

\* gradio_app.py:17-31: one tracker shared by the four agents, the output
\* directories exist and are empty
Init ==
  /\ pc = [t \in Threads |-> "idle"]
  /\ caller = [t \in Threads |-> "ui"]
  /\ orch = [t \in Threads |-> OrchInit]
  /\ cg = [t \in Threads |-> CgInit]
  /\ tg = [t \in Threads |-> TgInit]
  /\ exc = [t \in Threads |-> None]
  /\ disk = [p \in Paths |-> None]
  /\ usage = ZeroUsage
  /\ obs = ZeroUsage
  /\ trace = [t \in Threads |-> <<>>]
  /\ prompt = [t \in Threads |-> None]
  /\ disk0 = [t \in Threads |-> [p \in Paths |-> None]]
  /\ cj = CjInit

\* ------------------------------------------------------ shared fragments
Goto(t, l) == pc' = [pc EXCEPT ![t] = l]

\* an exception leaves the agent: to the handler of generate_application
\* (gradio_app.py:81) or to the direct caller
Raise(t, msg) ==
  /\ exc' = [exc EXCEPT ![t] = Some(msg)]
  /\ Goto(t, IF caller[t] = "ui" THEN "except" ELSE "raised")

Log(t, op, site) == trace' = [trace EXCEPT ![t] = Append(@, <<op, site>>)]

\* TrackingAgent.generate_content returned: newUsage is the tracker after it
ModelAnswered(t, site, p, tok, newUsage) ==
  /\ usage' = newUsage
  /\ obs' = [calls |-> obs.calls + 1, tokens |-> obs.tokens + tok]
  /\ prompt' = [prompt EXCEPT ![t] = Some(p)]
  /\ Log(t, "call", site)

\* the model call raised: nothing is recorded
ModelFailed(t, site, p) ==
  /\ prompt' = [prompt EXCEPT ![t] = Some(p)]
  /\ Log(t, "call", site)
  /\ UNCHANGED <<usage, obs>>

generate_content(u, tok) == RecordUsage(u, tok)

AddStatus(t, label) == [orch[t] EXCEPT !.status = @ \o <<label>>]

\* ------------------------------------------------- generate_application
\* gradio_app.py:44-65: where generate_application continues once the call
\* of a stage has returned
NextStageSwapped(l) ==
  CASE l = "parse" -> "codegen"
    [] l = "codegen" -> "design"
    [] l = "design" -> "tests"
    [] l = "tests" -> "report"
    [] l = "report" -> "load_conjugator"

NextStageReportEarly(l) ==
  CASE l = "parse" -> "design"
    [] l = "design" -> "codegen"
    [] l = "codegen" -> "report"
    [] l = "report" -> "tests"
    [] l = "tests" -> "load_conjugator"

NextStage(l) ==
  CASE l = "parse" -> "design"
    [] l = "design" -> "codegen"
    [] l = "codegen" -> "tests"
    [] l = "tests" -> "report"
    [] l = "report" -> "load_conjugator"

\* gradio_app.py:43: the tracker built in __init__ is used as it is
\* the model calls an invocation standing at l has still to make
RemainingCalls(l) ==
  CASE l = "parse" -> 5
    [] l = "design" -> 4
    [] l \in {"codegen", "gc_conjugator"} -> 3
    [] l = "gc_ui" -> 2
    [] l \in {"gc_save", "tests", "gt_generate"} -> 1
    [] OTHER -> 0

RECURSIVE SumOver(_, _)
SumOver(S, f) ==
  IF S = {} THEN 0
  ELSE LET x == CHOOSE y \in S : TRUE IN f[x] + SumOver(S \ {x}, f)

\* the model calls of one run: parse, design, conjugator, ui, tests
CallsPerRun == RemainingCalls("parse")

\* the calls made so far and those the invocations in flight will make
CallsCommitted ==
  obs.calls + SumOver(Threads, [t \in Threads |-> RemainingCalls(pc[t])])

StartUsageReset(u) == ZeroUsage

StartUsage(u) == u

GenerateApplication(t, r) ==
  /\ pc[t] \in {"idle", "done"}
  /\ CallsCommitted + CallsPerRun <= MaxCalls
  /\ Goto(t, "parse")
  /\ caller' = [caller EXCEPT ![t] = "ui"]
  /\ orch' = [orch EXCEPT ![t] = [OrchInit EXCEPT !.requirements = Some(r)]]
  /\ cg' = [cg EXCEPT ![t] = CgInit]
  /\ tg' = [tg EXCEPT ![t] = TgInit]
  /\ exc' = [exc EXCEPT ![t] = None]
  /\ trace' = [trace EXCEPT ![t] = <<>>]
  /\ prompt' = [prompt EXCEPT ![t] = None]
  /\ disk0' = [disk0 EXCEPT ![t] = disk]
  /\ usage' = StartUsage(usage)
  /\ UNCHANGED <<cj, disk, obs>>

\* gradio_app.py:44-46 and ParserAgent.parse_requirements: one model call
ParsePrompt(r) == <<"parse", r>>

ParseRequirements(t, w) ==
  /\ pc[t] = "parse"
  /\ LET o == AddStatus(t, "Parsing requirements...")
         p == ParsePrompt(Get(orch[t].requirements)) IN
     \/ \E s \in w.specs, tok \in w.tokens :
          /\ ModelAnswered(t, "parse", p, tok, generate_content(usage, tok))
          /\ orch' = [orch EXCEPT ![t] = [o EXCEPT !.spec = Some(s)]]
          /\ Goto(t, NextStage("parse"))
          /\ UNCHANGED exc
     \/ \E msg \in w.errs :
          /\ ModelFailed(t, "parse", p)
          /\ orch' = [orch EXCEPT ![t] = o]
          /\ Raise(t, msg)
  /\ UNCHANGED <<cj, caller, cg, tg, disk, disk0>>

\* gradio_app.py:48-50 and DesignAgent.create_design: one model call
DesignPrompt(s) == <<"design", s>>

CreateDesign(t, w) ==
  /\ pc[t] = "design"
  /\ LET o == AddStatus(t, "Creating design...")
         p == DesignPrompt(Get(orch[t].spec)) IN
     \/ \E d \in w.designs, tok \in w.tokens :
          /\ ModelAnswered(t, "design", p, tok, generate_content(usage, tok))
          /\ orch' = [orch EXCEPT ![t] = [o EXCEPT !.design = Some(d)]]
          /\ Goto(t, NextStage("design"))
          /\ UNCHANGED exc
     \/ \E msg \in w.errs :
          /\ ModelFailed(t, "design", p)
          /\ orch' = [orch EXCEPT ![t] = o]
          /\ Raise(t, msg)
  /\ UNCHANGED <<cj, caller, cg, tg, disk, disk0>>

\* gradio_app.py:52-54: the call of generate_code
CallCodeGen(t, w) ==
  /\ pc[t] = "codegen"
  /\ orch' = [orch EXCEPT ![t] = AddStatus(t, "Generating code...")]
  /\ cg' = [cg EXCEPT ![t] =
              [CgInit EXCEPT !.spec = orch[t].spec, !.design = orch[t].design]]
  /\ Goto(t, "gc_conjugator")
  /\ UNCHANGED <<cj, caller, tg, exc, disk, usage, obs, trace, prompt, disk0>>


\* ------------------------------------------- CodeGenAgent.generate_code
\* mcp.GeneratedCode as built at code_gen_agent.py:82-87 and 109-114
ConjugatorArtifact(code) ==
  [filename |-> FnConjugator, code |-> code,
   description |-> "Main verb conjugator module",
   dependencies |-> <<"mlconjug3">>]

UiArtifactMisnamed(code) ==
  [filename |-> FnConjugator, code |-> code,
   description |-> "Gradio user interface",
   dependencies |-> <<"gradio", "verb_conjugator">>]

UiArtifact(code) ==
  [filename |-> FnUi, code |-> code,
   description |-> "Gradio user interface",
   dependencies |-> <<"gradio", "verb_conjugator">>]

\* code_gen_agent.py:60-77 and 92-104: the fields the prompts embed
ConjugatorPrompt(s) ==
  <<"conjugator", s.languages, s.tenses, s.persons, s.handle_irregular>>
UiPrompt(s) == <<"ui", s.languages, s.tenses>>

\* code_gen_agent.py:79: the call goes through the tracker
ConjugatorUsageBypass(u, tok) == u

ConjugatorUsage(u, tok) == generate_content(u, tok)

\* generate_code has no handler: whatever a step raises leaves the call
GcOnErrorSwallow(t, msg) ==
  /\ cg' = [cg EXCEPT ![t].ret = Some(cg[t].generated_files)]
  /\ IF caller[t] = "ui"
     THEN /\ orch' = [orch EXCEPT ![t].generated_code =
                                     Some(cg[t].generated_files)]
          /\ Goto(t, NextStage("codegen"))
     ELSE /\ Goto(t, "returned")
          /\ UNCHANGED orch
  /\ UNCHANGED exc

GcOnError(t, msg) ==
  /\ Raise(t, msg)
  /\ UNCHANGED <<cg, orch>>

\* code_gen_agent.py:45-47: files are saved after both artifacts exist
GcConjugatorEager(t, w) ==
  /\ pc[t] = "gc_conjugator"
  /\ LET p == ConjugatorPrompt(Get(cg[t].spec)) IN
     \/ \E resp \in w.code, tok \in w.tokens :
          /\ ModelAnswered(t, "conjugator", p, tok, ConjugatorUsage(usage, tok))
          /\ cg' = [cg EXCEPT ![t].generated_files =
                      <<ConjugatorArtifact(clean_code_block(resp))>>]
          /\ disk' = save_to_file(disk, clean_code_block(resp), PathConjugator)
          /\ Goto(t, "gc_ui")
          /\ UNCHANGED <<exc, orch>>
     \/ \E msg \in w.errs :
          /\ ModelFailed(t, "conjugator", p)
          /\ GcOnError(t, msg)
          /\ UNCHANGED disk
  /\ UNCHANGED <<cj, caller, tg, disk0>>

\* code_gen_agent.py:34-38 with _generate_conjugator (57-87)
GcConjugator(t, w) ==
  /\ pc[t] = "gc_conjugator"
  /\ LET p == ConjugatorPrompt(Get(cg[t].spec)) IN
     \/ \E resp \in w.code, tok \in w.tokens :
          /\ ModelAnswered(t, "conjugator", p, tok, ConjugatorUsage(usage, tok))
          /\ cg' = [cg EXCEPT ![t].generated_files =
                      <<ConjugatorArtifact(clean_code_block(resp))>>]
          /\ Goto(t, "gc_ui")
          /\ UNCHANGED <<exc, orch>>
     \/ \E msg \in w.errs :
          /\ ModelFailed(t, "conjugator", p)
          /\ GcOnError(t, msg)
  /\ UNCHANGED <<cj, caller, tg, disk, disk0>>

\* code_gen_agent.py:40-42 with _generate_ui (89-114)
GcUi(t, w) ==
  /\ pc[t] = "gc_ui"
  /\ LET p == UiPrompt(Get(cg[t].spec)) IN
     \/ \E resp \in w.ui, tok \in w.tokens :
          /\ ModelAnswered(t, "ui", p, tok, generate_content(usage, tok))
          /\ cg' = [cg EXCEPT ![t].generated_files =
                      Append(@, UiArtifact(clean_code_block(resp))),
                    ![t].i = 1]
          /\ Goto(t, "gc_save")
          /\ UNCHANGED <<exc, orch>>
     \/ \E msg \in w.errs :
          /\ ModelFailed(t, "ui", p)
          /\ GcOnError(t, msg)
  /\ UNCHANGED <<cj, caller, tg, disk, disk0>>

\* a write that fails leaves the file as it was or truncated
FailedWrite(d, path) == {d, [d EXCEPT ![path] = Some(EmptyText)]}

\* code_gen_agent.py:46
CodeFilePathFixed(gen_code) == <<CONJUGATOR_DIR, FnConjugator>>

CodeFilePath(gen_code) == <<CONJUGATOR_DIR, gen_code.filename>>

\* code_gen_agent.py:45-47: one iteration of the save loop
GcSaveBody(t, w) ==
  LET gen_code == cg[t].generated_files[cg[t].i]
      filepath == CodeFilePath(gen_code) IN
  /\ Log(t, "write", filepath)
  /\ \/ /\ disk' = save_to_file(disk, gen_code.code, filepath)
        /\ cg' = [cg EXCEPT ![t].i = @ + 1]
        /\ UNCHANGED <<pc, exc, orch>>
     \/ \E msg \in w.errs :
          /\ disk' \in FailedWrite(disk, filepath)
          /\ GcOnError(t, msg)

GcSave(t, w) ==
  /\ pc[t] = "gc_save"
  /\ cg[t].i <= Len(cg[t].generated_files)
  /\ GcSaveBody(t, w)
  /\ UNCHANGED <<cj, caller, tg, usage, obs, prompt, disk0>>

\* code_gen_agent.py:55
GcReturn(t, w) ==
  /\ pc[t] = "gc_save"
  /\ cg[t].i > Len(cg[t].generated_files)
  /\ cg' = [cg EXCEPT ![t].ret = Some(cg[t].generated_files)]
  /\ IF caller[t] = "ui"
     THEN /\ orch' = [orch EXCEPT ![t].generated_code =
                                     Some(cg[t].generated_files)]
          /\ Goto(t, NextStage("codegen"))
     ELSE /\ Goto(t, "returned")
          /\ UNCHANGED orch
  /\ UNCHANGED <<cj, caller, tg, exc, disk, usage, obs, trace, prompt, disk0>>

\* --------------------------------------------- TestAgent.generate_tests
\* gradio_app.py:56-58: the call of generate_tests
CallTestGen(t, w) ==
  /\ pc[t] = "tests"
  /\ orch' = [orch EXCEPT ![t] = AddStatus(t, "Generating tests...")]
  /\ tg' = [tg EXCEPT ![t] =
              [TgInit EXCEPT !.spec = orch[t].spec,
                             !.generated_code = orch[t].generated_code]]
  /\ Goto(t, "gt_generate")
  /\ UNCHANGED <<cj, caller, cg, exc, disk, usage, obs, trace, prompt, disk0>>

Min(S) == CHOOSE x \in S : \A y \in S : x <= y

\* next(iterator, default): the first element, the default when there is none
NextNoDefault(items, matches, default) ==
  IF matches = {} THEN [raised |-> TRUE, value |-> None]
  ELSE [raised |-> FALSE, value |-> Some(items[Min(matches)])]

NextOrDefault(items, matches, default) ==
  IF matches = {} THEN [raised |-> FALSE, value |-> default]
  ELSE [raised |-> FALSE, value |-> Some(items[Min(matches)])]

\* test_agent.py:35
FindConjugator(generated_code) ==
  NextOrDefault(generated_code,
                {k \in 1..Len(generated_code) :
                   Contains(generated_code[k].filename, <<"conjugator">>)},
                None)

\* test_agent.py:37-61: the fields the prompt embeds
TestsPrompt(s) == <<"tests", s.languages, s.tenses, s.handle_irregular>>

\* test_agent.py:63-72: the file is opened only after the model answered
GtGenerateSaveEarly(t, w) ==
  /\ pc[t] = "gt_generate"
  /\ LET found == FindConjugator(Get(tg[t].generated_code))
         p == TestsPrompt(Get(tg[t].spec)) IN
     \/ \E resp \in w.tests, tok \in w.tokens :
          /\ ModelAnswered(t, "tests", p, tok, generate_content(usage, tok))
          /\ tg' = [tg EXCEPT ![t].conjugator_code = found.value,
                              ![t].response = Some(resp),
                              ![t].cleaned = Some(clean_code_block(resp)),
                              ![t].test_code =
                                Some(EnsureImport(clean_code_block(resp)))]
          /\ Goto(t, "gt_save")
          /\ UNCHANGED <<exc, disk>>
     \/ \E msg \in w.errs :
          /\ ModelFailed(t, "tests", p)
          /\ tg' = [tg EXCEPT ![t].conjugator_code = found.value]
          /\ disk' = save_to_file(disk, EmptyText, PathTests)
          /\ Raise(t, msg)
  /\ UNCHANGED <<cj, caller, orch, cg, disk0>>

\* test_agent.py:37-61: the prompt embeds nothing of the artifact found
GtGenerateUsesCode(t, w) ==
  /\ pc[t] = "gt_generate"
  /\ LET found == FindConjugator(Get(tg[t].generated_code))
         p == <<TestsPrompt(Get(tg[t].spec)), found.value>> IN
     \/ \E resp \in w.tests, tok \in w.tokens :
          /\ ModelAnswered(t, "tests", p, tok, generate_content(usage, tok))
          /\ tg' = [tg EXCEPT ![t].conjugator_code = found.value,
                              ![t].response = Some(resp),
                              ![t].cleaned = Some(clean_code_block(resp)),
                              ![t].test_code =
                                Some(EnsureImport(clean_code_block(resp)))]
          /\ Goto(t, "gt_save")
          /\ UNCHANGED exc
     \/ \E msg \in w.errs :
          /\ ModelFailed(t, "tests", p)
          /\ tg' = [tg EXCEPT ![t].conjugator_code = found.value]
          /\ Raise(t, msg)
  /\ UNCHANGED <<cj, caller, orch, cg, disk, disk0>>

\* test_agent.py:34-68
GtGenerate(t, w) ==
  /\ pc[t] = "gt_generate"
  /\ LET found == FindConjugator(Get(tg[t].generated_code))
         p == TestsPrompt(Get(tg[t].spec)) IN
     IF found.raised
     THEN /\ Raise(t, <<"StopIteration">>)
          /\ UNCHANGED <<tg, usage, obs, trace, prompt>>
     ELSE
       \/ \E resp \in w.tests, tok \in w.tokens :
            /\ ModelAnswered(t, "tests", p, tok, generate_content(usage, tok))
            /\ tg' = [tg EXCEPT ![t].conjugator_code = found.value,
                                ![t].response = Some(resp),
                                ![t].cleaned = Some(clean_code_block(resp)),
                                ![t].test_code =
                                  Some(EnsureImport(clean_code_block(resp)))]
            /\ Goto(t, "gt_save")
            /\ UNCHANGED exc
       \/ \E msg \in w.errs :
            /\ ModelFailed(t, "tests", p)
            /\ tg' = [tg EXCEPT ![t].conjugator_code = found.value]
            /\ Raise(t, msg)
  /\ UNCHANGED <<cj, caller, orch, cg, disk, disk0>>

\* test_agent.py:72: the text saved is test_code, import line included
SavedTestsCleaned(t) == Get(tg[t].cleaned)

SavedTests(t) == Get(tg[t].test_code)

\* test_agent.py:70-80
GtSave(t, w) ==
  /\ pc[t] = "gt_save"
  /\ Log(t, "write", PathTests)
  /\ \/ /\ disk' = save_to_file(disk, SavedTests(t), PathTests)
        /\ tg' = [tg EXCEPT ![t].ret = tg[t].test_code]
        /\ IF caller[t] = "ui"
           THEN /\ orch' = [orch EXCEPT ![t].test_code = tg[t].test_code]
                /\ Goto(t, NextStage("tests"))
           ELSE /\ Goto(t, "returned")
                /\ UNCHANGED orch
        /\ UNCHANGED exc
     \/ \E msg \in w.errs :
          /\ disk' \in FailedWrite(disk, PathTests)
          /\ Raise(t, msg)
          /\ UNCHANGED <<tg, orch>>
  /\ UNCHANGED <<cj, caller, cg, usage, obs, prompt, disk0>>


\* ------------------------------------ generate_application, second half
\* gradio_app.py:60-62 with TrackingAgent.save_usage_report
SaveUsageReport(t, w) ==
  /\ pc[t] = "report"
  /\ orch' = [orch EXCEPT ![t] = AddStatus(t, "Saving usage report...")]
  /\ Log(t, "write", USAGE_REPORT_FILE)
  /\ \/ /\ disk' = save_to_file(disk, ReportText(usage), USAGE_REPORT_FILE)
        /\ Goto(t, NextStage("report"))
        /\ UNCHANGED exc
     \/ \E msg \in w.errs :
          /\ disk' \in FailedWrite(disk, USAGE_REPORT_FILE)
          /\ Raise(t, msg)
  /\ UNCHANGED <<cj, caller, cg, tg, usage, obs, prompt, disk0>>

\* utils.helpers.load_from_file: the content of the file, or an error
LoadStep(t, w, path, field, next) ==
  /\ Log(t, "read", path)
  /\ \/ /\ IsSome(disk[path])
        /\ orch' = [orch EXCEPT ![t] = [@ EXCEPT ![field] = disk[path]]]
        /\ Goto(t, next)
        /\ UNCHANGED exc
     \/ \E msg \in w.errs :
          /\ Raise(t, msg)
          /\ UNCHANGED orch
  /\ UNCHANGED <<cj, caller, cg, tg, disk, usage, obs, prompt, disk0>>

\* gradio_app.py:65
LoadConjugator(t, w) ==
  /\ pc[t] = "load_conjugator"
  /\ LoadStep(t, w, PathConjugator, "conjugator_code", "load_ui")

\* gradio_app.py:66
LoadUi(t, w) ==
  /\ pc[t] = "load_ui"
  /\ LoadStep(t, w, PathUi, "ui_code", "load_report")

\* gradio_app.py:69
FullCode(conjugator_code, ui_code) ==
  <<"# verb_conjugator.py", NL>> \o conjugator_code
    \o <<NL, NL, "# gradio_ui.py", NL>> \o ui_code

\* gradio_app.py:72
LoadReport(t, w) ==
  /\ pc[t] = "load_report"
  /\ LoadStep(t, w, USAGE_REPORT_FILE, "usage_report", "instructions")

\* gradio_app.py:85-117: the fields the instructions embed
CreateInstructions(s) ==
  <<"# How to Run the Generated Application", s.languages, s.tenses,
    s.handle_irregular>>

\* gradio_app.py:79: the test text returned is the local test_code
ReturnedTestsReadBack(t) == Get(disk[PathTests])

ReturnedTests(t) == Get(orch[t].test_code)

\* gradio_app.py:69 and 75-79
Finish(t, w) ==
  /\ pc[t] = "instructions"
  /\ \/ LET o == orch[t]
            full_code == FullCode(Get(o.conjugator_code), Get(o.ui_code))
            status == o.status \o <<"Generation complete!">> IN
        /\ orch' = [orch EXCEPT ![t] =
             [o EXCEPT !.full_code = Some(full_code),
                       !.status = status,
                       !.result = Some(<<status, full_code, ReturnedTests(t),
                                         Get(o.usage_report),
                                         CreateInstructions(Get(o.spec))>>)]]
        /\ Goto(t, "done")
        /\ UNCHANGED exc
     \/ \E msg \in w.errs :
          /\ Raise(t, msg)
          /\ UNCHANGED orch
  /\ UNCHANGED <<cj, caller, cg, tg, disk, usage, obs, trace, prompt, disk0>>

\* gradio_app.py:82
ErrorMsgBare(msg) == msg

ErrorMsg(msg) == <<"Error: ">> \o msg

\* gradio_app.py:81-83
ExceptWithProgress(t, w) ==
  /\ pc[t] = "except"
  /\ orch' = [orch EXCEPT ![t].result =
                Some(<<orch[t].status \o ErrorMsg(Get(exc[t])), EmptyText,
                       EmptyText, EmptyText, EmptyText>>)]
  /\ Goto(t, "done")
  /\ UNCHANGED <<cj, caller, cg, tg, exc, disk, usage, obs, trace, prompt, disk0>>

ExceptRollback(t, w) ==
  /\ pc[t] = "except"
  /\ orch' = [orch EXCEPT ![t].result =
                Some(<<ErrorMsg(Get(exc[t])), EmptyText, EmptyText, EmptyText,
                       EmptyText>>)]
  /\ disk' = disk0[t]
  /\ Goto(t, "done")
  /\ UNCHANGED <<cj, caller, cg, tg, exc, usage, obs, trace, prompt, disk0>>

Except(t, w) ==
  /\ pc[t] = "except"
  /\ orch' = [orch EXCEPT ![t].result =
                Some(<<ErrorMsg(Get(exc[t])), EmptyText, EmptyText, EmptyText,
                       EmptyText>>)]
  /\ Goto(t, "done")
  /\ UNCHANGED <<cj, caller, cg, tg, exc, disk, usage, obs, trace, prompt, disk0>>

\* ------------------------------------------------------- specifications
Steps(t, w) ==
  \/ ParseRequirements(t, w)
  \/ CreateDesign(t, w)
  \/ CallCodeGen(t, w)
  \/ GcConjugator(t, w)
  \/ GcUi(t, w)
  \/ GcSave(t, w)
  \/ GcReturn(t, w)
  \/ CallTestGen(t, w)
  \/ GtGenerate(t, w)
  \/ GtSave(t, w)
  \/ SaveUsageReport(t, w)
  \/ LoadConjugator(t, w)
  \/ LoadUi(t, w)
  \/ LoadReport(t, w)
  \/ Finish(t, w)
  \/ Except(t, w)

\* one invocation at a time (the button handler is called again only after
\* it has returned)
Next ==
  \/ \E r \in Requirements : GenerateApplication(1, r)
  \/ Steps(1, WorldSeq)

Spec == Init /\ [][Next]_vars


\* two invocations of the handler may be in flight together: the button
\* can be pressed again before the first call has returned
WorldConc ==
  World({SpecA}, {<<"design_a">>}, CodeResponses, {RespFenced},
        {RespFencedImport, RespPlain}, {1},
        {<<"quota exceeded">>})

NextConc ==
  \E t \in Threads :
    \/ GenerateApplication(t, <<"req_a">>)
    \/ Steps(t, WorldConc)

SpecConc == Init /\ [][NextConc]_vars

\* ------------------------------------------- the agents, called directly
OtherArtifact(code) ==
  [filename |-> FnOther, code |-> code, description |-> "Entry point",
   dependencies |-> <<>>]

ArtifactLists ==
  LET c == ConjugatorArtifact(<<"body_b">>)
      u == UiArtifact(<<"body_d">>)
      o == OtherArtifact(<<"body_e">>) IN
  {<<>>, <<u>>, <<o, u>>, <<c, u>>, <<u, c>>}

DirectCall(t) ==
  /\ pc[t] \in {"idle", "returned", "raised"}
  /\ caller' = [caller EXCEPT ![t] = "direct"]
  /\ exc' = [exc EXCEPT ![t] = None]
  /\ trace' = [trace EXCEPT ![t] = <<>>]
  /\ prompt' = [prompt EXCEPT ![t] = None]
  /\ disk0' = [disk0 EXCEPT ![t] = disk]
  /\ UNCHANGED <<cj, orch, disk, usage, obs>>

\* code_gen_agent.py:20
CallGenerateCode(t, s, d) ==
  /\ obs.calls + 2 <= MaxDirectCalls
  /\ DirectCall(t)
  /\ cg' = [cg EXCEPT ![t] = [CgInit EXCEPT !.spec = Some(s), !.design = Some(d)]]
  /\ tg' = [tg EXCEPT ![t] = TgInit]
  /\ Goto(t, "gc_conjugator")

\* test_agent.py:20
CallGenerateTests(t, s, generated_code) ==
  /\ obs.calls + 1 <= MaxDirectCalls
  /\ DirectCall(t)
  /\ tg' = [tg EXCEPT ![t] = [TgInit EXCEPT !.spec = Some(s),
                                !.generated_code = Some(generated_code)]]
  /\ cg' = [cg EXCEPT ![t] = CgInit]
  /\ Goto(t, "gt_generate")

WorldAgents ==
  World(Specs, Designs, CodeResponses, CodeResponses, TestResponses,
        TokenCounts, ErrMsgs)

NextAgents ==
  \/ \E s \in WorldAgents.specs, d \in WorldAgents.designs :
       CallGenerateCode(1, s, d)
  \/ \E s \in WorldAgents.specs, l \in ArtifactLists :
       CallGenerateTests(1, s, l)
  \/ GcConjugator(1, WorldAgents)
  \/ GcUi(1, WorldAgents)
  \/ GcSave(1, WorldAgents)
  \/ GcReturn(1, WorldAgents)
  \/ GtGenerate(1, WorldAgents)
  \/ GtSave(1, WorldAgents)

SpecAgents == Init /\ [][NextAgents]_vars


\* ------------------------------------------- VerbConjugator.conjugate
\* verb_conjugator.py:50-54
supported_tenses ==
  [k \in {"present", "imperfect", "future"} |->
     IF k = "present" THEN "indicatif présent"
     ELSE IF k = "imperfect" THEN "indicatif imparfait"
     ELSE "indicatif futur simple"]

TenseOrder == <<"present", "imperfect", "future">>

\* verb_conjugator.py:55-62
supported_persons ==
  [k \in {"first_singular", "second_singular", "third_singular",
          "first_plural", "second_plural", "third_plural"} |->
     IF k = "first_singular" THEN "je"
     ELSE IF k = "second_singular" THEN "tu"
     ELSE IF k = "third_singular" THEN "il"
     ELSE IF k = "first_plural" THEN "nous"
     ELSE IF k = "second_plural" THEN "vous"
     ELSE "ils"]

PersonOrder ==
  <<"first_singular", "second_singular", "third_singular", "first_plural",
    "second_plural", "third_plural">>

\* str.lower on the argument strings used
Lower(str) ==
  IF str = "Future" THEN "future"
  ELSE IF str = "Third_Plural" THEN "third_plural"
  ELSE str

\* verb_conjugator.py:65-69 and 72-76: the values of the supported keys, in
\* the order given; all values when the argument is None
Select(arg, supported, order) ==
  IF arg = None
  THEN [i \in 1..Len(order) |-> supported[order[i]]]
  ELSE LET kept == SelectSeq(Get(arg),
                             LAMBDA k : Lower(k) \in DOMAIN supported) IN
       [i \in 1..Len(kept) |-> supported[Lower(kept[i])]]

\* arguments of conjugate
Verbs == {"manger", "nonexistentverb"}
TensesArgs == {None, Some(<<"present">>), Some(<<"Future", "present">>),
               Some(<<"past">>)}
PersonsArgs == {None, Some(<<"first_singular", "Third_Plural">>),
                Some(<<"they">>)}

\* what the mlconjug3 objects do for the verb: get_verb returns a falsy
\* value, raises, or returns a verb object whose conjugate(tense) returns all
\* six persons, only "je", nothing, or raises
TenseValues == {supported_tenses[k] : k \in DOMAIN supported_tenses}
PersonValues == {supported_persons[k] : k \in DOMAIN supported_persons}
Libraries ==
  [get_verb : {"none", "raises"}, conjugate : {[v \in TenseValues |-> "raises"]}]
  \cup [get_verb : {"obj"},
        conjugate : [TenseValues -> {"all", "je", "empty", "raises"}]]

PersonsReturned(outcome) ==
  IF outcome = "all" THEN PersonValues
  ELSE IF outcome = "je" THEN {"je"}
  ELSE {}

\* the conjugated form the library gives
Form(verb, tense, person) == <<verb, tense, person>>

\* dict[key] = value
SetItem(d, k, v) == [x \in DOMAIN d \cup {k} |-> IF x = k THEN v ELSE d[x]]

\* verb_conjugator.py:23: a call of conjugate on a constructed object (the
\* method keeps nothing from one call to the next, so one call is followed)
Conjugate(verb, tenses, persons) ==
  /\ cj.pc = "idle"
  /\ \E initialised \in BOOLEAN, lib \in Libraries :
       cj' = [CjInit EXCEPT !.pc = "check",
                            !.initialised = initialised,
                            !.verb = verb,
                            !.lib = Some(lib),
                            !.tenses = tenses,
                            !.persons = persons]
  /\ UNCHANGED pipelineVars

\* verb_conjugator.py:46-47
CjNotInitialised ==
  /\ cj.pc = "check"
  /\ ~cj.initialised
  /\ cj' = [cj EXCEPT !.pc = "raised", !.raised = Some("ValueError")]
  /\ UNCHANGED pipelineVars

\* verb_conjugator.py:49-78
CjSelect ==
  /\ cj.pc = "check"
  /\ cj.initialised
  /\ cj' = [cj EXCEPT
              !.pc = "tense",
              !.selected_tenses =
                 Select(cj.tenses, supported_tenses, TenseOrder),
              !.selected_persons =
                 Select(cj.persons, supported_persons, PersonOrder),
              !.conjugations = <<>>]
  /\ UNCHANGED pipelineVars

\* verb_conjugator.py:81-82
CjTense ==
  /\ cj.pc = "tense"
  /\ cj.ti <= Len(cj.selected_tenses)
  /\ cj' = [cj EXCEPT !.pc = "person", !.pi = 1, !.tense_conjugations = <<>>]
  /\ UNCHANGED pipelineVars

\* verb_conjugator.py:91-104: the body of the inner try; raised tells
\* whether it left by an exception
PersonBody(verb, tense, person, lib, tense_conjugations) ==
  IF lib.get_verb = "raises" \/
     (lib.get_verb = "obj" /\ lib.conjugate[tense] = "raises")
  THEN [raised |-> TRUE, tense_conjugations |-> tense_conjugations]
  ELSE IF lib.get_verb = "none"
  THEN [raised |-> FALSE, tense_conjugations |-> tense_conjugations]
  ELSE IF person \in PersonsReturned(lib.conjugate[tense])
  THEN [raised |-> FALSE,
        tense_conjugations |->
          SetItem(tense_conjugations, person, Form(verb, tense, person))]
  ELSE [raised |-> FALSE,
        tense_conjugations |->
          SetItem(tense_conjugations, person, <<"Not found">>)]

\* verb_conjugator.py:106-108: a failing call leaves a non-empty dictionary
OnPersonErrorSkip(tense_conjugations, person) == tense_conjugations

OnPersonError(tense_conjugations, person) ==
  SetItem(tense_conjugations, person, <<"Error">>)

\* verb_conjugator.py:83-108: one iteration of the loop over persons
CjPerson ==
  /\ cj.pc = "person"
  /\ cj.pi <= Len(cj.selected_persons)
  /\ LET tense == cj.selected_tenses[cj.ti]
         person == cj.selected_persons[cj.pi]
         body == PersonBody(cj.verb, tense, person, Get(cj.lib),
                            cj.tense_conjugations) IN
     cj' = [cj EXCEPT
              !.pi = @ + 1,
              !.tense_conjugations =
                 IF body.raised
                 THEN OnPersonError(body.tense_conjugations, person)
                 ELSE body.tense_conjugations]
  /\ UNCHANGED pipelineVars

\* verb_conjugator.py:109-110
CjTenseEnd ==
  /\ cj.pc = "person"
  /\ cj.pi > Len(cj.selected_persons)
  /\ cj' = [cj EXCEPT
              !.pc = "tense",
              !.ti = @ + 1,
              !.conjugations =
                 IF DOMAIN cj.tense_conjugations # {}
                 THEN SetItem(@, cj.selected_tenses[cj.ti],
                              cj.tense_conjugations)
                 ELSE @]
  /\ UNCHANGED pipelineVars

\* verb_conjugator.py:116 (the handler of 112-114 catches nothing the loop
\* body lets through: every library call is inside the inner try)
CjReturn ==
  /\ cj.pc = "tense"
  /\ cj.ti > Len(cj.selected_tenses)
  /\ cj' = [cj EXCEPT !.pc = "returned", !.ret = Some(cj.conjugations)]
  /\ UNCHANGED pipelineVars

NextConj ==
  \/ \E verb \in Verbs, tenses \in TensesArgs, persons \in PersonsArgs :
       Conjugate(verb, tenses, persons)
  \/ CjNotInitialised
  \/ CjSelect
  \/ CjTense
  \/ CjPerson
  \/ CjTenseEnd
  \/ CjReturn

SpecConj == Init /\ [][NextConj]_vars


\* ----------------------------------------------------------- properties
Succeeded(t) == caller[t] = "ui" /\ pc[t] = "done" /\ exc[t] = None
Failed(t) == caller[t] = "ui" /\ pc[t] = "done" /\ exc[t] # None
Result(t) == Get(orch[t].result)

IsPrefix(a, b) == Len(a) <= Len(b) /\ a = SubSeq(b, 1, Len(a))

\* what a run of generate_application does, in order, when nothing fails
FullTrace ==
  << <<"call", "parse">>, <<"call", "design">>, <<"call", "conjugator">>,
     <<"call", "ui">>, <<"write", PathConjugator>>, <<"write", PathUi>>,
     <<"call", "tests">>, <<"write", PathTests>>,
     <<"write", USAGE_REPORT_FILE>>, <<"read", PathConjugator>>,
     <<"read", PathUi>>, <<"read", USAGE_REPORT_FILE>> >>

\* C1: generate_application returns a 5-tuple; when a stage raised, the first
\* element is a non-empty error string, the other four are empty strings,
\* and the exception does not leave generate_application.
C1_ErrorTuple ==
  \A t \in Threads :
    /\ caller[t] = "ui" => pc[t] # "raised"
    /\ (caller[t] = "ui" /\ pc[t] = "done") =>
         /\ IsSome(orch[t].result)
         /\ Len(Result(t)) = 5
         /\ exc[t] # None =>
              /\ Result(t)[1] # EmptyText
              /\ \A k \in 2..5 : Result(t)[k] = EmptyText

\* a run whose last stage (the instructions) raised with an empty message
C1_Witness ==
  /\ Failed(1)
  /\ Get(exc[1]) = EmptyText
  /\ trace[1] = FullTrace

\* C2: after a successful run the three persisted artifacts hold exactly
\* that run's content, whatever an earlier run left at the same paths.
C2_Overwrite ==
  \A t \in Threads :
    Succeeded(t) =>
      /\ disk[PathConjugator] = Some(Get(orch[t].generated_code)[1].code)
      /\ disk[PathUi] = Some(Get(orch[t].generated_code)[2].code)
      /\ disk[PathTests] = orch[t].test_code

\* a second successful run whose three artifacts all differ from the ones
\* the first successful run had persisted
C2_Witness ==
  /\ Succeeded(1)
  /\ disk0[1][USAGE_REPORT_FILE] = Some(<<"usage_report", 5, 5 * MaxTokens>>)
  /\ \A p \in {PathConjugator, PathUi, PathTests} :
       /\ disk0[1][p] # None
       /\ disk0[1][p] # Some(EmptyText)
       /\ disk0[1][p] # disk[p]

\* C3: a generate_code call that returns yields exactly two artifacts, named
\* verb_conjugator.py and gradio_ui.py in this order.
C3_TwoArtifacts ==
  \A t \in Threads :
    cg[t].ret # None =>
      /\ Len(Get(cg[t].ret)) = 2
      /\ Get(cg[t].ret)[1].filename = <<"verb_", "conjugator", ".py">>
      /\ Get(cg[t].ret)[2].filename = <<"gradio_ui", ".py">>

C3_Witness ==
  /\ caller[1] = "direct"
  /\ pc[1] = "returned"
  /\ cg[1].ret # None
  /\ cg[1].spec = Some(SpecB)
  /\ cg[1].design = Some(<<"design_b">>)
  /\ Get(cg[1].ret)[1].code # Get(cg[1].ret)[2].code

\* C4: the text generate_tests returns contains 'import pytest': the line is
\* prepended when the cleaned model output lacks it, and the cleaned output
\* is returned unchanged when it has it.
C4_ImportPytest ==
  \A t \in Threads :
    tg[t].ret # None =>
      LET out == Get(tg[t].ret)
          cleaned == Get(tg[t].cleaned) IN
      /\ Contains(out, <<"import ", "pytest">>)
      /\ Contains(cleaned, <<"import ", "pytest">>) => out = cleaned
      /\ ~Contains(cleaned, <<"import ", "pytest">>) =>
           out = <<"import ", "pytest", NL>> \o cleaned

\* a fenced answer without the import: the line is prepended to the body
C4_Witness ==
  /\ caller[1] = "direct"
  /\ pc[1] = "returned"
  /\ tg[1].ret = Some(<<"import ", "pytest", NL, "body_d">>)


NoConjugator(generated_code) ==
  \A k \in 1..Len(generated_code) :
     ~Contains(generated_code[k].filename, <<"conjugator">>)

\* C5: when no artifact of the list has 'conjugator' in its filename,
\* generate_tests does not raise for it: the lookup yields no artifact, the
\* model is called, the test file is persisted and the text is returned.
C5_LookupMiss ==
  \A t \in Threads :
    (/\ caller[t] = "direct"
     /\ tg[t].generated_code # None
     /\ NoConjugator(Get(tg[t].generated_code))) =>
      /\ pc[t] = "raised" => trace[t] # <<>>
      /\ pc[t] = "gt_save" =>
           /\ tg[t].conjugator_code = None
           /\ trace[t] = << <<"call", "tests">> >>
      /\ pc[t] = "returned" =>
           /\ tg[t].conjugator_code = None
           /\ trace[t] = << <<"call", "tests">>, <<"write", PathTests>> >>
           /\ tg[t].ret # None
           /\ disk[PathTests] = tg[t].ret

\* generate_tests has returned for the empty list
C5_Witness ==
  /\ caller[1] = "direct"
  /\ pc[1] = "returned"
  /\ tg[1].generated_code = Some(<<>>)
  /\ tg[1].ret # None

\* C6: the tracker's accumulated counters equal the sum of the usage
\* observations of all successful model calls: each counted exactly once.
C6_UsageSum ==
  /\ usage.calls = obs.calls
  /\ usage.tokens = obs.tokens

\* four successful calls whose observations are not all equal
C6_Witness ==
  /\ obs.calls = 4
  /\ obs.tokens = 6
  /\ usage.calls = 4

\* C7: the stages of a run execute in the order parse, design, code
\* generation, test generation, usage-report save; a stage has the artifacts
\* of the earlier stages when it starts and no artifact exists before the
\* ones it is derived from.
C7_StageOrder ==
  \A t \in Threads :
    caller[t] = "ui" =>
      LET o == orch[t] IN
      /\ IsPrefix(trace[t], FullTrace)
      /\ pc[t] = "design" => o.spec # None
      /\ pc[t] \in {"codegen", "gc_conjugator", "gc_ui", "gc_save"} =>
           o.spec # None /\ o.design # None
      /\ pc[t] \in {"tests", "gt_generate", "gt_save"} =>
           o.generated_code # None
      /\ pc[t] = "report" => o.test_code # None
      /\ o.design # None => o.spec # None
      /\ o.generated_code # None => o.design # None
      /\ o.test_code # None => o.generated_code # None
      /\ o.conjugator_code # None => o.test_code # None

C7_Witness ==
  /\ Succeeded(1)
  /\ trace[1] = FullTrace

CallsOf(tr) == Cardinality({k \in 1..Len(tr) : tr[k][1] = "call"})

\* C8 as stated: the usage report a run returns counts only the model calls
\* of that run.
C8_ResetPerRun ==
  \A t \in Threads :
    Succeeded(t) => Result(t)[4][2] = CallsOf(trace[t])

\* C8, amended: the usage report a run returns counts every successful model
\* call made since the instance was constructed, earlier runs included.
C8_Cumulative ==
  \A t \in Threads :
    Succeeded(t) => Result(t)[4] = <<"usage_report", obs.calls, obs.tokens>>

\* the second of two successful runs reports the calls of both
C8_Witness ==
  /\ Succeeded(1)
  /\ disk0[1][USAGE_REPORT_FILE] = Some(<<"usage_report", 5, 5 * MaxTokens>>)
  /\ Result(1)[4] = <<"usage_report", 10, 10 * MaxTokens>>
  /\ CallsOf(trace[1]) = 5

\* C9: of two overlapping invocations, the test text one returns is always
\* the text its own generate_tests call returned; the code bundle and the
\* usage report are read back from the shared files and may hold what the
\* other invocation wrote (C9_Witness).
C9_OwnTests ==
  \A t \in Threads :
    Succeeded(t) => Result(t)[3] = Get(tg[t].ret)

\* invocation 1 returns the conjugator code invocation 2 generated and a
\* report that counts calls of invocation 2, with its own test text
C9_Witness ==
  /\ Succeeded(1)
  /\ Len(cg[2].generated_files) >= 1
  /\ Get(orch[1].conjugator_code) = cg[2].generated_files[1].code
  /\ Get(orch[1].conjugator_code) # cg[1].generated_files[1].code
  /\ Result(1)[2] # FullCode(cg[1].generated_files[1].code,
                            cg[1].generated_files[2].code)
  /\ Result(1)[4][2] > CallsOf(trace[1])
  /\ Result(1)[3] = Get(tg[1].ret)
  /\ tg[2].ret # None
  /\ tg[2].ret # tg[1].ret

GcTrace ==
  << <<"call", "conjugator">>, <<"call", "ui">>,
     <<"write", PathConjugator>>, <<"write", PathUi>> >>

\* C10: a failure of a model call or of a file write inside generate_code
\* leaves the call as an exception: no call or write is attempted twice, and
\* a list is returned only when all four steps succeeded.
C10_Propagates ==
  \A t \in Threads :
    (caller[t] = "direct" /\ cg[t].spec # None) =>
      /\ IsPrefix(trace[t], GcTrace)
      /\ pc[t] = "returned" =>
           /\ cg[t].ret # None
           /\ trace[t] = GcTrace
           /\ exc[t] = None
      /\ pc[t] = "raised" =>
           /\ cg[t].ret = None
           /\ exc[t] # None
           /\ trace[t] # <<>>
      /\ cg[t].ret # None => pc[t] = "returned"

\* the second model call raised: one artifact had been built, none returned
C10_Witness ==
  /\ caller[1] = "direct"
  /\ pc[1] = "raised"
  /\ cg[1].spec # None
  /\ Len(cg[1].generated_files) = 1
  /\ trace[1] = << <<"call", "conjugator">>, <<"call", "ui">> >>
  /\ cg[1].ret = None


WritesOf(tr) == Cardinality({k \in 1..Len(tr) : tr[k][1] = "write"})

\* C11: a generate_code call that returns has made exactly two model calls
\* (conjugator module, then UI module) and exactly two file writes (the
\* conjugator file, then the UI file).
C11_TwoCallsTwoWrites ==
  \A t \in Threads :
    (caller[t] = "direct" /\ cg[t].ret # None) =>
      /\ Len(trace[t]) = 4
      /\ CallsOf(trace[t]) = 2
      /\ WritesOf(trace[t]) = 2
      /\ trace[t][1][2] = "conjugator"
      /\ trace[t][2][2] = "ui"
      /\ trace[t][3][2] = <<CONJUGATOR_DIR, Get(cg[t].ret)[1].filename>>
      /\ trace[t][4][2] = <<CONJUGATOR_DIR, Get(cg[t].ret)[2].filename>>
      /\ trace[t][3][2] # trace[t][4][2]

\* a returned call whose two writes are on disk, after an earlier call
C11_Witness ==
  /\ caller[1] = "direct"
  /\ cg[1].ret # None
  /\ obs.calls = 4
  /\ disk[PathConjugator] = Some(<<"body_b">>)
  /\ disk[PathUi] = Some(<<"body_d">>)
  /\ disk0[1][PathConjugator] = Some(<<"body_d">>)

ReportWrites(tr) ==
  {k \in 1..Len(tr) : tr[k][1] = "write" /\ tr[k][2] = USAGE_REPORT_FILE}

\* C12: in a run the usage report is written at most once and only after the
\* five model calls and the three artifact writes; a successful run wrote it
\* once; a run in which an earlier stage raised did not write it.
C12_ReportOnce ==
  \A t \in Threads :
    (caller[t] = "ui" /\ pc[t] # "idle") =>
      /\ Cardinality(ReportWrites(trace[t])) <= 1
      /\ \A k \in ReportWrites(trace[t]) :
           /\ k = 9
           /\ CallsOf(SubSeq(trace[t], 1, 8)) = 5
           /\ CallsOf(trace[t]) = 5
      /\ Succeeded(t) => Cardinality(ReportWrites(trace[t])) = 1
      /\ ReportWrites(trace[t]) = {} =>
           disk[USAGE_REPORT_FILE] = disk0[t][USAGE_REPORT_FILE]

\* a second run whose test-generation call raised: the report of the first
\* run is still the one on disk
C12_Witness ==
  /\ Failed(1)
  /\ Len(trace[1]) = 7
  /\ disk[USAGE_REPORT_FILE] = Some(<<"usage_report", 5, 5 * MaxTokens>>)
  /\ usage.calls = 9

\* C13: on failure the returned status is only the error string built from
\* the exception message, without the progress text; two failed invocations
\* with the same message return identical 5-tuples whatever stage raised.
C13_OpaqueError ==
  \A t \in Threads :
    Failed(t) =>
      /\ Result(t) =
           << <<"Error: ">> \o Get(exc[t]), EmptyText, EmptyText, EmptyText,
              EmptyText >>
      /\ \A u \in Threads :
           (Failed(u) /\ exc[u] = exc[t]) => Result(u) = Result(t)

\* one invocation failed in parsing, the other in the usage-report save
C13_Witness ==
  /\ Failed(1)
  /\ Failed(2)
  /\ exc[1] = exc[2]
  /\ Len(trace[1]) = 1
  /\ Len(trace[2]) = 9
  /\ orch[1].status # orch[2].status
  /\ Result(1) = Result(2)

\* C14: generate_tests calls the model, strips the answer, prepends the
\* import line when it is absent, saves, then returns; the text saved is the
\* text returned; when the model call raises nothing is saved.
C14_TestsPersisted ==
  \A t \in Threads :
    (caller[t] = "direct" /\ tg[t].generated_code # None) =>
      /\ IsPrefix(trace[t], << <<"call", "tests">>, <<"write", PathTests>> >>)
      /\ pc[t] = "returned" =>
           /\ Len(trace[t]) = 2
           /\ tg[t].cleaned = Some(clean_code_block(Get(tg[t].response)))
           /\ tg[t].ret = Some(EnsureImport(Get(tg[t].cleaned)))
           /\ Contains(Get(tg[t].ret), ImportPytest)
           /\ disk[PathTests] = tg[t].ret
      /\ (pc[t] = "raised" /\ Len(trace[t]) = 1) => disk = disk0[t]

\* a call whose answer had no import line returned over an older test file
C14_Witness ==
  /\ caller[1] = "direct"
  /\ pc[1] = "returned"
  /\ tg[1].response = Some(RespPlain)
  /\ tg[1].ret = Some(<<"import ", "pytest", NL, "body_b">>)
  /\ disk[PathTests] = tg[1].ret
  /\ disk0[1][PathTests] # None
  /\ disk0[1][PathTests] # disk[PathTests]

\* the content an invocation of generate_application gives to a path
RunContent(t, path) ==
  IF path = PathConjugator THEN Some(cg[t].generated_files[1].code)
  ELSE IF path = PathUi THEN Some(cg[t].generated_files[2].code)
  ELSE IF path = PathTests THEN tg[t].test_code
  ELSE Some(ReportText(usage))

\* C16: a failed run returns empty payloads, yet every file it wrote before
\* the failure keeps the content that run gave it; when the second code-file
\* write fails the first code file already holds the new code.
C16_NoRollback ==
  \A t \in Threads :
    Failed(t) =>
      /\ \A i \in 2..5 : Result(t)[i] = EmptyText
      /\ \A k \in 1..(Len(trace[t]) - 1) :
           trace[t][k][1] = "write" =>
             disk[trace[t][k][2]] = RunContent(t, trace[t][k][2])
      /\ (Len(trace[t]) = 6 /\ trace[t][6] = <<"write", PathUi>>) =>
           disk[PathConjugator] = Some(cg[t].generated_files[1].code)

\* the second run's write of the UI file failed: the conjugator file holds
\* the second run's code, not the first run's
C16_Witness ==
  /\ Failed(1)
  /\ Len(trace[1]) = 6
  /\ disk0[1][PathConjugator] = Some(<<"body_d">>)
  /\ disk[PathConjugator] = Some(<<"body_b">>)
  /\ Result(1)[2] = EmptyText

\* C17: in generate_code both model calls come before the first write; while
\* no write has happened, and so when either model call raised, the files
\* are as they were when the call began.
C17_CallsBeforeWrites ==
  \A t \in Threads :
    (caller[t] = "direct" /\ cg[t].spec # None) =>
      /\ \A k \in 1..Len(trace[t]) :
           trace[t][k][1] = "write" =>
             /\ k >= 3
             /\ CallsOf(SubSeq(trace[t], 1, 2)) = 2
      /\ WritesOf(trace[t]) = 0 => disk = disk0[t]
      /\ (pc[t] = "raised" /\ Len(trace[t]) <= 2) => disk = disk0[t]

\* the UI call of a second invocation raised after the conjugator call had
\* answered with other code: the files of the first invocation are untouched
C17_Witness ==
  /\ caller[1] = "direct"
  /\ pc[1] = "raised"
  /\ Len(trace[1]) = 2
  /\ cg[1].generated_files = <<ConjugatorArtifact(<<"body_d">>)>>
  /\ disk[PathConjugator] = Some(<<"body_b">>)
  /\ disk = disk0[1]

\* ---------------------------------- two callers of generate_tests
WorldTests ==
  World(Specs, {<<"design_a">>}, {RespPlain}, {RespPlain},
        {RespFencedImport, RespPlain}, {1}, {<<"quota exceeded">>})

\* the empty list and the lists in which the conjugator artifact is found
ListsForTests ==
  {l \in ArtifactLists : l = <<>> \/ FindConjugator(l).value # None}

NextTests ==
  \E t \in Threads :
    \/ \E s \in WorldTests.specs, l \in ListsForTests :
         CallGenerateTests(t, s, l)
    \/ GtGenerate(t, WorldTests)
    \/ GtSave(t, WorldTests)

SpecTests == Init /\ [][NextTests]_vars

\* C18: two callers of generate_tests with the same spec, answered alike by
\* the model, sent the same prompt and returned the same text, which is the
\* text on disk, whatever generated_code lists they were given.
C18_IgnoresGeneratedCode ==
  \A t \in Threads : \A u \in Threads :
    ( /\ t # u
      /\ caller[t] = "direct" /\ caller[u] = "direct"
      /\ pc[t] = "returned" /\ pc[u] = "returned"
      /\ tg[t].spec = tg[u].spec
      /\ tg[t].response = tg[u].response ) =>
        /\ prompt[t] = prompt[u]
        /\ tg[t].ret = tg[u].ret
        /\ disk[PathTests] = tg[t].ret

\* one call was given the empty list, the other a list holding the
\* conjugator artifact
C18_Witness ==
  /\ caller[1] = "direct" /\ caller[2] = "direct"
  /\ pc[1] = "returned" /\ pc[2] = "returned"
  /\ tg[1].spec = tg[2].spec
  /\ tg[1].response = tg[2].response
  /\ tg[1].generated_code = Some(<<>>)
  /\ tg[2].conjugator_code # None
  /\ tg[1].ret = tg[2].ret

\* the conjugation of the verb failed for what was selected: the verb was
\* not found, or the library call raised for every selected tense
ConjugationFails ==
  LET lib == Get(cj.lib) IN
  \/ lib.get_verb \in {"none", "raises"}
  \/ \A i \in 1..Len(cj.selected_tenses) :
       lib.conjugate[cj.selected_tenses[i]] = "raises"

\* C15: on an initialised conjugator, when the conjugation of the verb fails
\* (verb not found, or the underlying call raises) conjugate returns an
\* empty dictionary.
C15_EmptyOnFailure ==
  (cj.pc = "returned" /\ cj.initialised /\ ConjugationFails) =>
    DOMAIN Get(cj.ret) = {}

\* C15, what the code does instead: a raising library call yields "Error"
\* for each selected person, and only a verb that is not found yields {}
C15_ErrorEntries ==
  (cj.pc = "returned" /\ cj.initialised) =>
    LET lib == Get(cj.lib)
        ret == Get(cj.ret) IN
    /\ lib.get_verb = "none" => DOMAIN ret = {}
    /\ (lib.get_verb = "raises" /\ cj.selected_persons # <<>>) =>
         /\ DOMAIN ret = {cj.selected_tenses[i] : i \in 1..Len(cj.selected_tenses)}
         /\ \A tense \in DOMAIN ret : \A person \in DOMAIN ret[tense] :
              ret[tense][person] = <<"Error">>

\* get_verb raised for "manger" with the default tenses and persons: the
\* result holds three tenses of six "Error" entries
C15_Witness ==
  /\ cj.pc = "returned"
  /\ cj.initialised
  /\ cj.verb = "manger"
  /\ Get(cj.lib).get_verb = "raises"
  /\ Len(cj.selected_tenses) = 3
  /\ Len(cj.selected_persons) = 6
  /\ DOMAIN Get(cj.ret) = TenseValues
  /\ \A tense \in TenseValues :
       Get(cj.ret)[tense] = [person \in PersonValues |-> <<"Error">>]

====
